---------------------------- MODULE Spec2Model ----------------------------
(***************************************************************************)
(* hriPhysio::Core::RingBuffer<T> (HriPhysio/Core/ringBuffer.h) as a state *)
(* machine.  The shared state is the object's fields; every thread that    *)
(* uses the object has a program counter and a call frame.  A member       *)
(* function is split into steps at the statements that write a field the   *)
(* unlocked queries (empty, full, size, length) read, so that a query of   *)
(* another thread can fall between any two such writes.                    *)
(***************************************************************************)
EXTENDS Integers, Sequences, FiniteSets, TLC

\* Capacities range over 0..MaxCap, batch lengths over 0..MaxCap.
MaxCap == 2

\* Elements range over 1..NumValues; 0 is T{}, the value-initialised element.
NumValues == 2

\* A Graph has 1..MaxNodes nodes and takes up to MaxEdges edges.
MaxNodes == 3

MaxEdges == 3

\* A client that numbers the values it enqueues stops after MaxSent values.
MaxSent == 4

\* std::size_t is modelled SizeWidth bits wide (64 in the source): every
\* operation on it is modular, and no modelled quantity comes near 2^SizeWidth
\* except by wrapping below zero.
SizeWidth == 6

VARIABLES
    buffer,         \* std::unique_ptr<T[]> buffer: index -> element
    buffer_length,  \* std::size_t buffer_length
    buffer_head,    \* std::size_t buffer_head
    buffer_tail,    \* std::size_t buffer_tail
    buffer_size,    \* std::size_t buffer_size
    lock,           \* std::mutex lock: 0 when free, else the owning thread
    pc,             \* per thread: where it is
    frame,          \* per thread: the call it is in (arguments, locals, result)
    may             \* per thread: the member functions its client code calls

\* The Graph object (graph.cpp) and the call in progress on it.
VARIABLES
    num_nodes,      \* int num_nodes
    num_edges,      \* int num_edges
    nbr,            \* std::unique_ptr<std::vector<Edge>[]> nbr: node -> edges
    dist,           \* dist: node -> best known distance, -1 when unreached
    prev,           \* prev: node -> predecessor on the best path, -1 when none
    used,           \* dijkstra's local `used`: node -> finalized
    fringe,         \* dijkstra's local priority queue, smallest pair first
    message,        \* std::string& message of shortestPath, as its characters
    gpc,            \* where the caller of the Graph is
    call,           \* the Graph call in progress: arguments and outcome
    succeeded,      \* how many addEdge calls have returned normally
    finalized       \* the nodes the running dijkstra finalized, in order

graph == <<num_nodes, num_edges, nbr, dist, prev, used, fringe, message, gpc, call,
           succeeded, finalized>>

ring == <<buffer, buffer_length, buffer_head, buffer_tail, buffer_size, lock, pc, frame, may>>

vars == <<ring, graph>>

\* What no RingBuffer member function touches: the clients' roles and the
\* Graph object.
rest == <<may, graph>>

fields == <<buffer, buffer_length, buffer_head, buffer_tail, buffer_size>>

Threads == {1, 2}

Values == 1..NumValues

Elems == 0..NumValues

SizeMod == 2 ^ SizeWidth

\* size_t arithmetic
SizeAdd(a, b) == (a + b) % SizeMod

SizeSub(a, b) == (a - b) % SizeMod

\* std::make_unique<T[]>(n): n value-initialised elements
Zeroed(n) == [i \in 0..(n - 1) |-> 0]

\* The values a read of b[i] can produce: the element, or anything when i is
\* past the end of the allocation (undefined behaviour).
ReadSet(b, i) == IF i \in DOMAIN b THEN {b[i]} ELSE Elems

\* b after b[i] = v; a store past the end of the allocation lands outside the
\* array and leaves its elements as they were.
Store(b, i, v) == IF i \in DOMAIN b THEN [b EXCEPT ![i] = v] ELSE b

empty == buffer_size = 0

full == buffer_size >= buffer_length

size == buffer_size

length == buffer_length

\* The fields as one record (taken when a call gets the lock).
Fields == [buffer |-> buffer, length |-> buffer_length, head |-> buffer_head,
           tail |-> buffer_tail, size |-> buffer_size]

NoFields == [buffer |-> Zeroed(0), length |-> 0, head |-> 0, tail |-> 0, size |-> 0]

\* The client's `items` array after a bulk dequeue that succeeded, with the
\* overlap it asked for: the window its next call continues from.
NoWindow == [valid |-> FALSE, overlap |-> 0, out |-> <<>>]

\* What the client code of a thread keeps between its calls when it numbers
\* the values it enqueues 1, 2, 3, ...: how many values its successful
\* enqueues took so far, whether each of them found room for its values, and
\* the last value a dequeue() gave it (0: none yet).
NoClient == [numbers |-> FALSE, sent |-> 0, fits |-> TRUE, got |-> 0]

NoFrame == [op |-> "none", items |-> <<>>, length |-> 0, overlap |-> 0,
            idx |-> 0, pos |-> 0, out |-> <<>>, res |-> "none", pre |-> NoFields,
            window |-> NoWindow, client |-> NoClient]

Request(op, items, len, overlap) ==
    [NoFrame EXCEPT !.op = op, !.items = items, !.length = len, !.overlap = overlap]

\* All sequences over S of length n
RECURSIVE SeqsOfLen(_, _)
SeqsOfLen(S, n) ==
    IF n = 0 THEN {<<>>}
    ELSE {Append(s, v) : s \in SeqsOfLen(S, n - 1), v \in S}

Batches == UNION {SeqsOfLen(Values, n) : n \in 0..MaxCap}

LockedOps == {"resize", "clear", "enqueue", "enqueue_n", "dequeue", "dequeue_n",
              "front", "front_n"}

QueryOps == {"empty", "full", "size", "length"}

\* The calls a client can make, with their arguments.
Requests ==
    {Request("enqueue", <<v>>, 1, 0) : v \in Values}
    \cup {Request("enqueue_n", b, Len(b), 0) : b \in Batches}
    \cup {Request("dequeue", <<>>, 0, 0)}
    \cup {Request("dequeue_n", <<>>, n, o) : n \in 0..MaxCap, o \in 0..MaxCap}
    \cup {Request("front", <<>>, 0, 0)}
    \cup {Request("front_n", <<>>, n, 0) : n \in 0..MaxCap}
    \cup {Request("resize", <<>>, n, 0) : n \in 0..MaxCap}
    \cup {Request("clear", <<>>, 0, 0)}
    \cup {Request(q, <<>>, 0, 0) : q \in QueryOps}

\* The enqueue calls of a client that numbers its values and has sent n0 of
\* them: the next value, or a batch of the next values.
NumberedRequests(n0) ==
    {Request("enqueue", <<n0 + 1>>, 1, 0)}
    \cup {Request("enqueue_n", [i \in 1..n |-> n0 + i], n, 0) : n \in 0..MaxCap}

\* The calls the client code of thread t can make next.
ClientRequests(t) ==
    LET c == frame[t].client
        all == IF c.numbers
               THEN {r \in Requests : r.op \notin {"enqueue", "enqueue_n"}}
                    \cup {r \in NumberedRequests(c.sent) : c.sent + r.length <= MaxSent}
               ELSE Requests
    IN  {r \in all : r.op \in may[t]}

At(t, label, op) == pc[t] = label /\ frame[t].op = op

\* A call returns: the scoped_lock guard releases the mutex on the way out.
Finish(t, res, out) ==
    /\ pc' = [pc EXCEPT ![t] = "ret"]
    /\ frame' = [frame EXCEPT ![t].res = res, ![t].out = out]
    /\ lock' = 0
    /\ UNCHANGED rest

Goto(t, label) ==
    /\ pc' = [pc EXCEPT ![t] = label]
    /\ UNCHANGED <<frame, lock, rest>>

\* RingBuffer(length): the constructed object, no call in progress.
Constructed(c) ==
    /\ buffer = Zeroed(c)
    /\ buffer_length = c
    /\ buffer_head = 0
    /\ buffer_tail = 0
    /\ buffer_size = 0
    /\ lock = 0

\* A thread calls a member function.
Call(t) ==
    /\ pc[t] = "idle"
    /\ \E r \in ClientRequests(t) :
          /\ frame' = [frame EXCEPT ![t] = [r EXCEPT !.window = frame[t].window,
                                                      !.client = frame[t].client]]
          /\ pc' = [pc EXCEPT ![t] = IF r.op \in QueryOps THEN "query" ELSE "lock"]
    /\ UNCHANGED <<fields, lock, rest>>

\* std::scoped_lock guard(lock) at the head of a member function.
Acquire(t) ==
    /\ pc[t] = "lock"
    /\ lock = 0
    /\ lock' = t
    /\ pc' = [pc EXCEPT ![t] = "body"]
    /\ frame' = [frame EXCEPT ![t].pre = Fields]
    /\ UNCHANGED <<fields, rest>>

\* What the caller keeps of a finished call f for its next call.
Kept(f) ==
    IF f.op = "dequeue_n" /\ f.res = "true"
    THEN [valid |-> TRUE, overlap |-> f.overlap, out |-> f.out]
    ELSE NoWindow

\* Whether the finished call f is an enqueue that took its values.
Took(f) == f.op \in {"enqueue", "enqueue_n"} /\ f.res = "true"

\* What a client that numbers its values notes of a finished call f.
Noted(f) ==
    LET c == f.client IN
    IF ~c.numbers THEN c
    ELSE [numbers |-> TRUE,
          sent |-> IF Took(f) THEN c.sent + f.length ELSE c.sent,
          fits |-> c.fits /\ (Took(f) => f.pre.size + f.length <= f.pre.length),
          got |-> IF f.op = "dequeue" /\ f.res = "value" THEN f.out[1] ELSE c.got]

\* The caller takes the result; the thread is free for the next call.
Return(t) ==
    /\ pc[t] = "ret"
    /\ pc' = [pc EXCEPT ![t] = "idle"]
    /\ frame' = [frame EXCEPT ![t] = [NoFrame EXCEPT !.window = Kept(frame[t]),
                                                     !.client = Noted(frame[t])]]
    /\ UNCHANGED <<fields, lock, rest>>

(***************************************************************************)
(* bool enqueue(const T& item)                                             *)
(***************************************************************************)
EnqueueReject(t) ==
    /\ At(t, "body", "enqueue")
    /\ buffer_length = 0
    /\ Finish(t, "false", <<>>)
    /\ UNCHANGED fields

EnqueueEvict(t) ==
    /\ At(t, "body", "enqueue")
    /\ buffer_length # 0
    /\ IF full
       THEN /\ buffer_head' = SizeAdd(buffer_head, 1) % buffer_length
            /\ buffer_size' = SizeSub(buffer_size, 1)
       ELSE UNCHANGED <<buffer_head, buffer_size>>
    /\ Goto(t, "insert")
    /\ UNCHANGED <<buffer, buffer_length, buffer_tail>>

EnqueueInsert(t) ==
    /\ At(t, "insert", "enqueue")
    /\ buffer' = Store(buffer, buffer_tail, frame[t].items[1])
    /\ buffer_tail' = SizeAdd(buffer_tail, 1) % buffer_length
    /\ buffer_size' = SizeAdd(buffer_size, 1)
    /\ Finish(t, "true", <<>>)
    /\ UNCHANGED <<buffer_length, buffer_head>>

(***************************************************************************)
(* bool enqueue(const T* items, const std::size_t length)                  *)
(***************************************************************************)
EnqueueBulkRejects(len) == len > buffer_length \/ buffer_length = 0

EnqueueBulkReject(t) ==
    /\ At(t, "body", "enqueue_n")
    /\ EnqueueBulkRejects(frame[t].length)
    /\ Finish(t, "false", <<>>)
    /\ UNCHANGED fields

EnqueueBulkOverflows(len) == SizeAdd(buffer_size, len) >= buffer_length

EnqueueBulkEvict(t) ==
    /\ At(t, "body", "enqueue_n")
    /\ ~EnqueueBulkRejects(frame[t].length)
    /\ IF EnqueueBulkOverflows(frame[t].length)
       THEN /\ buffer_head' = SizeAdd(buffer_head, frame[t].length) % buffer_length
            /\ buffer_size' = SizeSub(buffer_size, frame[t].length)
       ELSE UNCHANGED <<buffer_head, buffer_size>>
    /\ Goto(t, "copy")
    /\ UNCHANGED <<buffer, buffer_length, buffer_tail>>

EnqueueBulkCopy(t) ==
    /\ At(t, "copy", "enqueue_n")
    /\ frame[t].idx < frame[t].length
    /\ buffer' = Store(buffer, buffer_tail, frame[t].items[frame[t].idx + 1])
    /\ buffer_tail' = SizeAdd(buffer_tail, 1) % buffer_length
    /\ buffer_size' = SizeAdd(buffer_size, 1)
    /\ frame' = [frame EXCEPT ![t].idx = @ + 1]
    /\ UNCHANGED <<buffer_length, buffer_head, lock, pc, rest>>

EnqueueBulkDone(t) ==
    /\ At(t, "copy", "enqueue_n")
    /\ frame[t].idx >= frame[t].length
    /\ Finish(t, "true", <<>>)
    /\ UNCHANGED fields

(***************************************************************************)
(* std::optional<T> dequeue()                                              *)
(***************************************************************************)
DequeueFail(t) ==
    /\ At(t, "body", "dequeue")
    /\ (buffer_length = 0 \/ empty)
    /\ Finish(t, "nullopt", <<>>)
    /\ UNCHANGED fields

DequeuePop(t) ==
    /\ At(t, "body", "dequeue")
    /\ ~(buffer_length = 0 \/ empty)
    /\ \E item \in ReadSet(buffer, buffer_head) : Finish(t, "value", <<item>>)
    /\ buffer_head' = SizeAdd(buffer_head, 1) % buffer_length
    /\ buffer_size' = SizeSub(buffer_size, 1)
    /\ UNCHANGED <<buffer, buffer_length, buffer_tail>>

(***************************************************************************)
(* bool dequeue(T* items, const std::size_t length,                        *)
(*              const std::size_t overlap = 0)                             *)
(***************************************************************************)
\* The argument check alone, the test against the stored count left out.
DequeueBulkRejectsArgsOnly(len, overlap) ==
    len > buffer_length \/ buffer_length = 0 \/ overlap > len

DequeueBulkRejects(len, overlap) ==
    \/ len > buffer_length \/ buffer_length = 0 \/ overlap > len
    \/ len > buffer_size

DequeueBulkReject(t) ==
    /\ At(t, "body", "dequeue_n")
    /\ DequeueBulkRejects(frame[t].length, frame[t].overlap)
    /\ Finish(t, "false", <<>>)
    /\ UNCHANGED fields

DequeueBulkStart(t) ==
    /\ At(t, "body", "dequeue_n")
    /\ ~DequeueBulkRejects(frame[t].length, frame[t].overlap)
    /\ pc' = [pc EXCEPT ![t] = "copy"]
    /\ frame' = [frame EXCEPT ![t].pos = buffer_head]
    /\ UNCHANGED <<fields, lock, rest>>

\* Whether iteration idx of the copy loop also retires the element it read.
Retires(idx, len, overlap) == idx < SizeSub(len, overlap)

DequeueBulkCopy(t) ==
    /\ At(t, "copy", "dequeue_n")
    /\ frame[t].idx < frame[t].length
    /\ \E item \in ReadSet(buffer, frame[t].pos) :
          frame' = [frame EXCEPT ![t].out = Append(@, item),
                                 ![t].pos = SizeAdd(@, 1) % buffer_length,
                                 ![t].idx = @ + 1]
    /\ IF Retires(frame[t].idx, frame[t].length, frame[t].overlap)
       THEN /\ buffer_head' = SizeAdd(buffer_head, 1) % buffer_length
            /\ buffer_size' = SizeSub(buffer_size, 1)
       ELSE UNCHANGED <<buffer_head, buffer_size>>
    /\ UNCHANGED <<buffer, buffer_length, buffer_tail, lock, pc, rest>>

DequeueBulkDone(t) ==
    /\ At(t, "copy", "dequeue_n")
    /\ frame[t].idx >= frame[t].length
    /\ Finish(t, "true", frame[t].out)
    /\ UNCHANGED fields

(***************************************************************************)
(* std::optional<T> front() const                                          *)
(***************************************************************************)
FrontFail(t) ==
    /\ At(t, "body", "front")
    /\ (buffer_length = 0 \/ empty)
    /\ Finish(t, "nullopt", <<>>)
    /\ UNCHANGED fields

FrontPeek(t) ==
    /\ At(t, "body", "front")
    /\ ~(buffer_length = 0 \/ empty)
    /\ \E item \in ReadSet(buffer, buffer_head) : Finish(t, "value", <<item>>)
    /\ UNCHANGED fields

(***************************************************************************)
(* The bulk front: copies `length` elements into `items`.                  *)
(***************************************************************************)
FrontBulkRejects(len) ==
    \/ len > buffer_length \/ buffer_length = 0
    \/ len > buffer_size

FrontBulkReject(t) ==
    /\ At(t, "body", "front_n")
    /\ FrontBulkRejects(frame[t].length)
    /\ Finish(t, "false", <<>>)
    /\ UNCHANGED fields

\* temp_head in iteration k of the copy loop (k counted from 0).
TempHead(k) == IF k = 0 THEN buffer_head ELSE SizeAdd(buffer_head, k) % buffer_length

FrontBulkCopy(t) ==
    /\ At(t, "body", "front_n")
    /\ ~FrontBulkRejects(frame[t].length)
    /\ \E out \in SeqsOfLen(Elems, frame[t].length) :
          /\ \A k \in 0..(frame[t].length - 1) : out[k + 1] \in ReadSet(buffer, TempHead(k))
          /\ Finish(t, "true", out)
    /\ UNCHANGED fields

(***************************************************************************)
(* void clear()                                                            *)
(***************************************************************************)
\* std::fill over the array, then the meta-data reset.
ClearFields ==
    /\ buffer' = Zeroed(buffer_length)
    /\ buffer_size' = 0
    /\ buffer_head' = 0
    /\ buffer_tail' = 0
    /\ UNCHANGED buffer_length

Clear(t) ==
    /\ At(t, "body", "clear")
    /\ ClearFields
    /\ Finish(t, "void", <<>>)

(***************************************************************************)
(* void resize(const std::size_t length)                                   *)
(***************************************************************************)
ResizeSetLength(t) ==
    /\ At(t, "body", "resize")
    /\ buffer_length' = frame[t].length
    /\ Goto(t, "length_set")
    /\ UNCHANGED <<buffer, buffer_head, buffer_tail, buffer_size>>

ResizeAllocate(t) ==
    /\ At(t, "length_set", "resize")
    /\ buffer' = Zeroed(buffer_length)
    /\ Goto(t, "allocated")
    /\ UNCHANGED <<buffer_length, buffer_head, buffer_tail, buffer_size>>

(***************************************************************************)
(* resize ends by calling clear() with its own guard still alive: clear's  *)
(* scoped_lock locks a std::mutex the calling thread already owns, which   *)
(* is undefined behaviour.  The three outcomes an implementation of        *)
(* std::mutex::lock produces: the thread waits for itself; the relock is   *)
(* detected and lock() throws std::system_error; the lock call returns     *)
(* (locking is a no-op without thread support) and clear runs.             *)
(***************************************************************************)
ResizeRelockBlocks(t) ==
    /\ At(t, "allocated", "resize")
    /\ lock = t
    /\ pc' = [pc EXCEPT ![t] = "lock"]
    /\ UNCHANGED <<fields, frame, lock, rest>>

ResizeRelockThrows(t) ==
    /\ At(t, "allocated", "resize")
    /\ lock = t
    /\ Finish(t, "system_error", <<>>)
    /\ UNCHANGED fields

ResizeRelockProceeds(t) ==
    /\ At(t, "allocated", "resize")
    /\ lock = t
    /\ ClearFields
    /\ Finish(t, "void", <<>>)

(***************************************************************************)
(* empty(), full(), size(), length(): no lock is taken.                    *)
(***************************************************************************)
Bool(b) == IF b THEN "true" ELSE "false"

QueryResult(op) ==
    CASE op = "empty"  -> [res |-> Bool(empty), out |-> <<>>]
      [] op = "full"   -> [res |-> Bool(full), out |-> <<>>]
      [] op = "size"   -> [res |-> "value", out |-> <<size>>]
      [] op = "length" -> [res |-> "value", out |-> <<length>>]

Query(t) ==
    /\ pc[t] = "query"
    /\ pc' = [pc EXCEPT ![t] = "ret"]
    /\ frame' = [frame EXCEPT ![t].res = QueryResult(frame[t].op).res,
                              ![t].out = QueryResult(frame[t].op).out]
    /\ UNCHANGED <<fields, lock, rest>>

(***************************************************************************)
(* hriPhysio::Core::Graph (graph.cpp).  The object has one caller; a call  *)
(* of shortestPath is split at the iterations of dijkstra's while loop.    *)
(***************************************************************************)
\* Node ids of a graph with n nodes.
Nodes(n) == 0..(n - 1)

\* Edge weights are doubles.  The model takes multiples of 0.5 and writes a
\* weight as its double: 0, 0.5, 1.0 and 5.0.
Weights == {0, 1, 2, 10}

\* Edge(to, weight)
Edge(to, weight) == [to |-> to, weight |-> weight]

\* The call in progress: which member function, the arguments of
\* shortestPath, and how the call ended.
NoCall == [op |-> "none", source |-> 0, target |-> 0, res |-> "none", again |-> FALSE]

\* What the caller's string can hold when it is passed to shortestPath:
\* nothing, or text from an earlier use.
Texts == {<<>>, <<"0", "-", "1">>}

\* Graph(n): n empty adjacency lists, no edge; dist and prev are empty vectors.
GraphConstructed(n) ==
    /\ num_nodes = n
    /\ num_edges = 0
    /\ nbr = [i \in Nodes(n) |-> <<>>]
    /\ dist = <<>>
    /\ prev = <<>>
    /\ used = <<>>
    /\ fringe = <<>>
    /\ message = <<>>
    /\ gpc = "idle"
    /\ call = NoCall
    /\ succeeded = 0
    /\ finalized = <<>>

\* No Graph is in use.
NoGraph ==
    /\ GraphConstructed(0)

\* The index check without its tests for negative indices.
OutOfRangeAbove(u, v) == u >= num_nodes \/ v >= num_nodes

\* u >= num_nodes || u < 0 || v >= num_nodes || v < 0
OutOfRange(u, v) == u >= num_nodes \/ u < 0 \/ v >= num_nodes \/ v < 0

\* The edge counted before the indices are checked.
AddEdgeThrowsCounted(u, v) ==
    /\ gpc = "idle"
    /\ OutOfRange(u, v)
    /\ num_edges' = num_edges + 1
    /\ gpc' = "ret"
    /\ call' = [NoCall EXCEPT !.op = "addEdge", !.res = "out_of_range"]
    /\ UNCHANGED <<num_nodes, nbr, dist, prev, used, fringe, message,
                   succeeded, finalized, ring>>

\* void Graph::addEdge(int u, int v, double weight): the index check throws,
\* whatever the weight.
AddEdgeThrows(u, v) ==
    /\ gpc = "idle"
    /\ OutOfRange(u, v)
    /\ gpc' = "ret"
    /\ call' = [NoCall EXCEPT !.op = "addEdge", !.res = "out_of_range"]
    /\ UNCHANGED <<num_nodes, num_edges, nbr, dist, prev, used, fringe, message,
                   succeeded, finalized, ring>>

\* nbr after nbr[u].push_back(e)
PushBack(lists, u, e) == [lists EXCEPT ![u] = Append(@, e)]

\* The two push_backs and the increment.
AddEdgeInserts(u, v, weight) ==
    /\ gpc = "idle"
    /\ ~OutOfRange(u, v)
    /\ num_edges < MaxEdges
    /\ nbr' = PushBack(PushBack(nbr, u, Edge(v, weight)), v, Edge(u, weight))
    /\ num_edges' = num_edges + 1
    /\ succeeded' = succeeded + 1
    /\ gpc' = "ret"
    /\ call' = [NoCall EXCEPT !.op = "addEdge", !.res = "void"]
    /\ UNCHANGED <<num_nodes, dist, prev, used, fringe, message, finalized, ring>>

\* int Graph::getNumEdges() const
GetNumEdges ==
    /\ gpc = "idle"
    /\ gpc' = "ret"
    /\ call' = [NoCall EXCEPT !.op = "getNumEdges", !.res = num_edges]
    /\ UNCHANGED <<num_nodes, num_edges, nbr, dist, prev, used, fringe, message,
                   succeeded, finalized, ring>>

\* The caller takes the outcome; dijkstra's locals and the caller's string
\* are gone.
GraphReturn ==
    /\ gpc = "ret"
    /\ gpc' = "idle"
    /\ call' = NoCall
    /\ used' = <<>>
    /\ fringe' = <<>>
    /\ finalized' = <<>>
    /\ message' = <<>>
    /\ UNCHANGED <<num_nodes, num_edges, nbr, dist, prev, succeeded, ring>>

(***************************************************************************)
(* void Graph::dijkstra(int source)                                        *)
(***************************************************************************)
\* old.assign(n, value): n copies of value, whatever old held.
Assign(old, n, value) == [i \in Nodes(n) |-> value]

\* old.resize(n, value): what old held stays, new places get value.
Resized(old, n, value) == [i \in Nodes(n) |-> IF i \in DOMAIN old THEN old[i] ELSE value]

\* The start with dist resized instead of flushed.
StartedOnOldDist(d, p, n, source) ==
    [dist |-> [Resized(d, n, -1) EXCEPT ![source] = 0],
     prev |-> [i \in Nodes(n) |-> -1],
     used |-> [i \in Nodes(n) |-> FALSE],
     fringe |-> <<<<0, source>>>>]

\* The state dijkstra works on, after lines 83-93: `used` all false, dist and
\* prev flushed, dist[source] = 0 and (0, source) in the queue.
Started(d, p, n, source) ==
    [dist |-> [Assign(d, n, -1) EXCEPT ![source] = 0],
     prev |-> Assign(p, n, -1),
     used |-> [i \in Nodes(n) |-> FALSE],
     fringe |-> <<<<0, source>>>>]

\* The comparison turned round: the largest pair first.
PairMore(a, b) == a[1] > b[1] \/ (a[1] = b[1] /\ a[2] > b[2])

\* std::greater<pii>: the queue hands out the smallest pair first.
PairLess(a, b) == a[1] < b[1] \/ (a[1] = b[1] /\ a[2] < b[2])

\* fringe.emplace(d, node): the queue is kept as a sequence in pop order.
RECURSIVE Emplace(_, _)
Emplace(q, pair) ==
    IF q = <<>> THEN <<pair>>
    ELSE IF PairLess(pair, Head(q)) THEN <<pair>> \o q
    ELSE <<Head(q)>> \o Emplace(Tail(q), pair)

\* The weight of the edge alone, the distance so far left out.
RelaxedEdgeOnly(weight, currentDist) == weight \div 2

\* int weight = edge.weight + currentDist: the sum is a double and the
\* conversion to int drops its fraction (weights are written as their double).
\* The sums formed from Weights are far below INT_MAX, where the conversion
\* is defined.
Relaxed(weight, currentDist) == (weight + 2 * currentDist) \div 2

\* One pass of the loop over nbr[from], for one edge.  Line 125 is read as
\* fringe.emplace(dist[to], to).
RelaxEdge(st, from, currentDist, edge) ==
    LET to == edge.to
        weight == Relaxed(edge.weight, currentDist)
    IN  IF st.used[to] THEN st
        ELSE IF st.dist[to] = -1 \/ weight < st.dist[to]
        THEN [st EXCEPT !.dist[to] = weight, !.prev[to] = from,
                        !.fringe = Emplace(@, <<weight, to>>)]
        ELSE st

\* for (const auto& edge : nbr[from])
RECURSIVE RelaxEdges(_, _, _, _)
RelaxEdges(st, from, currentDist, edges) ==
    IF edges = <<>> THEN st
    ELSE RelaxEdges(RelaxEdge(st, from, currentDist, Head(edges)), from, currentDist,
                    Tail(edges))

\* One iteration of the while loop: pop the top; unless the node is finalized
\* already, finalize it and relax its edges.
Iteration(st, lists) ==
    LET currentDist == Head(st.fringe)[1]
        from == Head(st.fringe)[2]
        popped == [st EXCEPT !.fringe = Tail(@)]
    IN  IF st.used[from] THEN popped
        ELSE RelaxEdges([popped EXCEPT !.used[from] = TRUE], from, currentDist,
                        lists[from])

\* The while loop run to its end from state st.
RECURSIVE Run(_, _)
Run(st, lists) == IF st.fringe = <<>> THEN st ELSE Run(Iteration(st, lists), lists)

\* The state of the running dijkstra as one record.
Dijkstra == [dist |-> dist, prev |-> prev, used |-> used, fringe |-> fringe]

DijkstraSkip ==
    /\ gpc = "loop"
    /\ fringe # <<>>
    /\ used[Head(fringe)[2]]
    /\ fringe' = Iteration(Dijkstra, nbr).fringe
    /\ UNCHANGED <<num_nodes, num_edges, nbr, dist, prev, used, message, gpc, call,
                   succeeded, finalized, ring>>

DijkstraVisit ==
    /\ gpc = "loop"
    /\ fringe # <<>>
    /\ ~used[Head(fringe)[2]]
    /\ LET st == Iteration(Dijkstra, nbr) IN
          /\ dist' = st.dist
          /\ prev' = st.prev
          /\ used' = st.used
          /\ fringe' = st.fringe
    /\ finalized' = Append(finalized, Head(fringe)[2])
    /\ UNCHANGED <<num_nodes, num_edges, nbr, message, gpc, call, succeeded, ring>>

(***************************************************************************)
(* void Graph::shortestPath(int source, int target, std::string& message)  *)
(***************************************************************************)
Digits == <<"0", "1", "2", "3", "4", "5", "6", "7", "8", "9">>

\* std::to_string of a node id (ids are not negative), as its characters.
RECURSIVE to_string(_)
to_string(n) ==
    IF n < 10 THEN <<Digits[n + 1]>>
    ELSE to_string(n \div 10) \o <<Digits[(n % 10) + 1]>>

\* for (int from = target; from != -1; from = prev[from]) path.push_back(from)
RECURSIVE Walk(_, _)
Walk(p, from) == IF from = -1 THEN <<>> ELSE <<from>> \o Walk(p, p[from])

\* std::reverse
Reverse(s) == [i \in 1..Len(s) |-> s[Len(s) + 1 - i]]

\* The loop that appends the ids with "-" between them.
RECURSIVE Joined(_)
Joined(path) ==
    IF path = <<>> THEN <<>>
    ELSE IF Len(path) = 1 THEN to_string(path[1])
    ELSE Joined(SubSeq(path, 1, Len(path) - 1)) \o <<"-">> \o to_string(path[Len(path)])

\* The recovery without the test for a path of one node.
RecoveredUnchecked(p, target) == Joined(Reverse(Walk(p, target)))

\* The message for `target` once dijkstra has filled prev p.
Recovered(p, target) ==
    LET path == Reverse(Walk(p, target))
    IN  IF Len(path) = 1 THEN <<>> ELSE Joined(path)

\* The self-path written as the one id.
ShortestPathSameOnce(source) ==
    /\ gpc = "idle"
    /\ message' = to_string(source)
    /\ gpc' = "ret"
    /\ call' = [NoCall EXCEPT !.op = "shortestPath", !.source = source,
                              !.target = source, !.res = "void"]
    /\ UNCHANGED <<num_nodes, num_edges, nbr, dist, prev, used, fringe, succeeded,
                   finalized, ring>>

\* source == target: no search, the id twice.
ShortestPathSame(source) ==
    /\ gpc = "idle"
    /\ message' = to_string(source) \o <<"-">> \o to_string(source)
    /\ gpc' = "ret"
    /\ call' = [NoCall EXCEPT !.op = "shortestPath", !.source = source,
                              !.target = source, !.res = "void"]
    /\ UNCHANGED <<num_nodes, num_edges, nbr, dist, prev, used, fringe, succeeded,
                   finalized, ring>>

\* source != target: dijkstra(source) starts.  `again` notes whether dist
\* and prev hold the outcome of an earlier search at this point.
ShortestPathStart(source, target, text) ==
    /\ gpc = "idle"
    /\ source # target
    /\ message' = text
    /\ LET st == Started(dist, prev, num_nodes, source) IN
          /\ dist' = st.dist
          /\ prev' = st.prev
          /\ used' = st.used
          /\ fringe' = st.fringe
    /\ finalized' = <<>>
    /\ gpc' = "loop"
    /\ call' = [NoCall EXCEPT !.op = "shortestPath", !.source = source,
                              !.target = target,
                              !.again = (DOMAIN dist = Nodes(num_nodes))]
    /\ UNCHANGED <<num_nodes, num_edges, nbr, succeeded, ring>>

\* The queue is empty: dijkstra returns and the path is recovered from prev.
ShortestPathFinish ==
    /\ gpc = "loop"
    /\ fringe = <<>>
    /\ message' = Recovered(prev, call.target)
    /\ gpc' = "ret"
    /\ call' = [call EXCEPT !.res = "void"]
    /\ UNCHANGED <<num_nodes, num_edges, nbr, dist, prev, used, fringe, succeeded,
                   finalized, ring>>

(***************************************************************************)
(* Specifications                                                          *)
(***************************************************************************)
Step(t) ==
    \/ Acquire(t)
    \/ EnqueueReject(t)
    \/ EnqueueEvict(t)
    \/ EnqueueInsert(t)
    \/ EnqueueBulkReject(t)
    \/ EnqueueBulkEvict(t)
    \/ EnqueueBulkCopy(t)
    \/ EnqueueBulkDone(t)
    \/ DequeueFail(t)
    \/ DequeuePop(t)
    \/ DequeueBulkReject(t)
    \/ DequeueBulkStart(t)
    \/ DequeueBulkCopy(t)
    \/ DequeueBulkDone(t)
    \/ FrontFail(t)
    \/ FrontPeek(t)
    \/ FrontBulkReject(t)
    \/ FrontBulkCopy(t)
    \/ Clear(t)
    \/ ResizeSetLength(t)
    \/ ResizeAllocate(t)
    \/ ResizeRelockBlocks(t)
    \/ ResizeRelockThrows(t)
    \/ ResizeRelockProceeds(t)
    \/ Query(t)
    \/ Return(t)

Next == \E t \in Threads : Call(t) \/ Step(t)

\* One client thread uses a buffer constructed with some capacity and calls
\* every member function; the other thread of Threads never touches it.
Init ==
    /\ \E c \in 0..MaxCap : Constructed(c)
    /\ NoGraph
    /\ pc = [t \in Threads |-> "idle"]
    /\ frame = [t \in Threads |-> NoFrame]
    /\ may = [t \in Threads |-> IF t = 1 THEN LockedOps \cup QueryOps ELSE {}]

Spec == Init /\ [][Next]_vars

\* Thread 1 calls the locked member functions while thread 2 polls the
\* queries.
InitConc ==
    /\ \E c \in 0..MaxCap : Constructed(c)
    /\ NoGraph
    /\ pc = [t \in Threads |-> "idle"]
    /\ frame = [t \in Threads |-> NoFrame]
    /\ may = [t \in Threads |-> IF t = 1 THEN LockedOps ELSE QueryOps]

SpecConc == InitConc /\ [][Next]_vars

\* Fair scheduling: a thread that can take a step eventually takes one, and a
\* thread waiting for the mutex gets it if it is free again and again.  A
\* client is never obliged to make another call.
FairSpec == SpecConc /\ \A t \in Threads : SF_vars(Step(t))

\* One producer and one consumer: thread 1 enqueues the values 1, 2, 3, ...,
\* one at a time or in batches, thread 2 calls dequeue(); nothing else is
\* called on the buffer.
Producer == 1

Consumer == 2

InitPC ==
    /\ \E c \in 0..MaxCap : Constructed(c)
    /\ NoGraph
    /\ pc = [t \in Threads |-> "idle"]
    /\ frame = [t \in Threads |-> [NoFrame EXCEPT !.client.numbers = TRUE]]
    /\ may = [t \in Threads |-> IF t = Producer THEN {"enqueue", "enqueue_n"}
                                                ELSE {"dequeue"}]

NextPC ==
    \E t \in Threads :
       \/ Call(t)
       \/ Acquire(t)
       \/ EnqueueReject(t)
       \/ EnqueueEvict(t)
       \/ EnqueueInsert(t)
       \/ EnqueueBulkReject(t)
       \/ EnqueueBulkEvict(t)
       \/ EnqueueBulkCopy(t)
       \/ EnqueueBulkDone(t)
       \/ DequeueFail(t)
       \/ DequeuePop(t)
       \/ Return(t)

SpecPC == InitPC /\ [][NextPC]_vars

\* A Graph of 1..MaxNodes nodes and its one caller; no RingBuffer is in use.
\* addEdge is called with indices from -1 to num_nodes, so with each index
\* valid, negative or too large.
GraphInit ==
    /\ \E n \in 1..MaxNodes : GraphConstructed(n)
    /\ Constructed(0)
    /\ pc = [t \in Threads |-> "idle"]
    /\ frame = [t \in Threads |-> NoFrame]
    /\ may = [t \in Threads |-> {}]

\* The weights the caller gives an edge from u to v.  A loop gets one weight
\* only: dijkstra reads an edge's weight and then drops the edge when its far
\* end is finalized, which the far end of a loop always is.
Offered(u, v) == IF u = v THEN {2} ELSE Weights

GraphNext ==
    \/ \E u, v \in -1..num_nodes : AddEdgeThrows(u, v)
    \/ \E u, v \in -1..num_nodes : \E weight \in Offered(u, v) :
          AddEdgeInserts(u, v, weight)
    \/ GetNumEdges
    \/ \E source \in Nodes(num_nodes) : ShortestPathSame(source)
    \/ \E source, target \in Nodes(num_nodes), text \in Texts :
          ShortestPathStart(source, target, text)
    \/ DijkstraSkip
    \/ DijkstraVisit
    \/ ShortestPathFinish
    \/ GraphReturn

GraphSpec == GraphInit /\ [][GraphNext]_vars

(***************************************************************************)
(* What the claims speak about                                             *)
(***************************************************************************)
\* The FIFO contents of the buffer in field record f: what successive
\* dequeue() calls return, oldest first.  The k-th of them (from 0) is read at
\* f.head for k = 0 and at (f.head + k) % f.length after that; a position
\* past the end of the allocation holds no element of the buffer (-1).
Fifo(f) ==
    IF f.length = 0 THEN <<>>
    ELSE [k \in 1..f.size |->
            LET at == IF k = 1 THEN f.head ELSE (f.head + k - 1) % f.length
            IN  IF at \in DOMAIN f.buffer THEN f.buffer[at] ELSE -1]

\* Thread t has returned from a call of op and still holds the result.
Returned(t, op) == pc[t] = "ret" /\ frame[t].op = op

\* No call holds the mutex or is between its steps.
Quiescent == lock = 0 /\ \A t \in Threads : pc[t] \in {"idle", "ret", "query"}

\* C1: from an empty buffer of capacity c > 0 filled by enqueues only (head
\* still 0, tail = count), a successful enqueue, single or bulk, of n elements
\* with count + n <= c leaves size() = count + n and the FIFO contents extended
\* by the n elements in order; and dequeue() on a non-empty buffer in range
\* returns the oldest element and removes exactly it.
C1_FifoWithinCapacity ==
    \A t \in Threads :
       LET f == frame[t] IN
       /\ (/\ pc[t] = "ret" /\ f.op \in {"enqueue", "enqueue_n"}
           /\ f.pre.length > 0 /\ f.pre.head = 0
           /\ f.pre.tail = f.pre.size % f.pre.length
           /\ f.pre.size + f.length <= f.pre.length)
          => /\ f.res = "true"
             /\ size = f.pre.size + f.length
             /\ Fifo(Fields) = Fifo(f.pre) \o f.items
       /\ (/\ Returned(t, "dequeue")
           /\ f.pre.length > 0 /\ f.pre.head < f.pre.length
           /\ f.pre.size \in 1..f.pre.length)
          => /\ f.res = "value"
             /\ f.out = <<Head(Fifo(f.pre))>>
             /\ Fifo(Fields) = Tail(Fifo(f.pre))

\* C2: enqueue(item) on a full buffer (size() = c > 0) returns true, leaves
\* size() = c, and the FIFO contents are the previous ones without their
\* first element, followed by item.
C2_EnqueueOnFullEvictsOldest ==
    \A t \in Threads :
       LET f == frame[t] IN
       (Returned(t, "enqueue") /\ f.pre.length > 0 /\ f.pre.size = f.pre.length)
          => /\ f.res = "true"
             /\ size = f.pre.length
             /\ length = f.pre.length
             /\ Fifo(Fields) = Tail(Fifo(f.pre)) \o f.items

\* C3: a successful bulk enqueue of 1..capacity items with
\* count + length >= capacity leaves the previous FIFO contents without their
\* first `length` elements, followed by the whole batch.
C3_BulkEnqueueKeepsBatch ==
    \A t \in Threads :
       LET f == frame[t] IN
       (/\ Returned(t, "enqueue_n") /\ f.res = "true"
        /\ f.length \in 1..f.pre.length
        /\ f.pre.size \in 0..f.pre.length
        /\ f.pre.size + f.length >= f.pre.length)
          => Fifo(Fields) = SubSeq(Fifo(f.pre), f.length + 1, f.pre.size) \o f.items

C5_RejectedBulkLeavesState ==
    \A t \in Threads :
       LET f == frame[t] IN
       /\ (Returned(t, "enqueue_n") /\ (f.length > f.pre.length \/ f.pre.length = 0))
             => f.res = "false"
       /\ (/\ Returned(t, "dequeue_n")
           /\ (\/ f.length > f.pre.length \/ f.overlap > f.length
               \/ f.pre.length = 0 \/ f.pre.size < f.length))
             => f.res = "false"
       /\ (/\ Returned(t, "front_n")
           /\ (f.length > f.pre.length \/ f.pre.length = 0 \/ f.length > f.pre.size))
             => f.res = "false"
       /\ (/\ pc[t] = "ret" /\ f.op \in {"enqueue_n", "dequeue_n", "front_n"}
           /\ f.res = "false")
             => Fields = f.pre

\* A bulk dequeue was turned down on a buffer that holds elements, fewer than
\* were asked for.
C5_Witness ==
    \E t \in Threads :
       /\ Returned(t, "dequeue_n") /\ frame[t].res = "false"
       /\ frame[t].pre.size > 0 /\ frame[t].length <= frame[t].pre.length
       /\ frame[t].overlap <= frame[t].length

\* C6: on a buffer of capacity 0 every enqueue, dequeue and front, single or
\* bulk, fails, and head, tail, count and capacity are all 0 afterwards.
C6_ZeroCapacityInert ==
    \A t \in Threads :
       LET f == frame[t] IN
       (/\ pc[t] = "ret"
        /\ f.op \in {"enqueue", "enqueue_n", "dequeue", "dequeue_n", "front", "front_n"}
        /\ f.pre.length = 0)
          => /\ f.res \in {"false", "nullopt"}
             /\ buffer_head = 0 /\ buffer_tail = 0
             /\ buffer_size = 0 /\ buffer_length = 0

\* C7: under fair scheduling every call of a locked member function
\* eventually returns, and the mutex is free whenever no call is in progress.
C7_CallsReturnAndUnlock ==
    /\ \A t \in Threads : (pc[t] \notin {"idle", "ret"}) ~> (pc[t] \in {"idle", "ret"})
    /\ [](lock # 0 => \E t \in Threads : lock = t /\ pc[t] \notin {"idle", "ret", "query"})

\* C8: resize(n), n > 0, completes (it neither waits for a mutex its own
\* thread holds nor ends in an exception) with length() = n, size() = 0,
\* empty(), not full(), head = tail = 0 and a value-initialised array; and
\* clear() returns with exactly that for the capacity it found.
C8_ResizeThenClear ==
    \A t \in Threads :
       LET f == frame[t] IN
       /\ (f.op = "resize" /\ f.length > 0)
             => /\ ~(pc[t] = "lock" /\ lock = t)
                /\ pc[t] = "ret"
                      => /\ f.res = "void"
                         /\ length = f.length /\ size = 0 /\ empty /\ ~full
                         /\ buffer_head = 0 /\ buffer_tail = 0
                         /\ buffer = Zeroed(f.length)
       /\ (Returned(t, "clear") /\ f.pre.length > 0)
             => /\ length = f.pre.length /\ size = 0 /\ empty /\ ~full
                /\ buffer_head = 0 /\ buffer_tail = 0
                /\ buffer = Zeroed(f.pre.length)

\* C9: a size() that one thread reads while another thread's call is in
\* progress, or between calls, is in 0..capacity (it is the count before or
\* after that call, never one from the middle of it).
C9_QueriesSeeNoMiddle ==
    [][\A t \in Threads :
          (pc[t] = "query" /\ pc'[t] = "ret" /\ frame[t].op = "size")
             => frame'[t].out[1] \in 0..buffer_length]_vars

\* C10: whenever no call is in progress, 0 <= count <= capacity, empty() is
\* true exactly when count = 0 and full() exactly when count = capacity.
C10_CountWithinCapacity ==
    Quiescent =>
       /\ buffer_size \in 0..buffer_length
       /\ empty <=> buffer_size = 0
       /\ full <=> buffer_size = buffer_length

\* C11: whenever no call is in progress on a buffer of capacity > 0, head and
\* tail are both in [0, capacity) and tail = (head + count) mod capacity.
C11_HeadTailInRange ==
    (Quiescent /\ buffer_length > 0) =>
       /\ buffer_head \in 0..(buffer_length - 1)
       /\ buffer_tail \in 0..(buffer_length - 1)
       /\ buffer_tail = (buffer_head + buffer_size) % buffer_length

Handed ==
    frame[Producer].client.sent
    + (IF pc[Producer] = "idle" THEN 0 ELSE frame[Producer].length)

\* The values enqueue calls that returned true have taken.
Enqueued ==
    frame[Producer].client.sent
    + (IF pc[Producer] = "ret" /\ Took(frame[Producer]) THEN frame[Producer].length ELSE 0)

\* Every enqueue that returned true found room for its values.
AlwaysFitted ==
    /\ frame[Producer].client.fits
    /\ (pc[Producer] = "ret" /\ Took(frame[Producer]))
          => frame[Producer].pre.size + frame[Producer].length
                <= frame[Producer].pre.length

\* The last value the consumer received (0: none yet).
Received ==
    IF Returned(Consumer, "dequeue") /\ frame[Consumer].res = "value"
    THEN frame[Consumer].out[1]
    ELSE frame[Consumer].client.got

\* C18: with the producer enqueueing 1, 2, 3, ... and the consumer calling
\* dequeue(), every value the consumer receives is larger than the one it
\* received before and is one the producer has handed over (so what it
\* receives is a subsequence of what was enqueued); and if every enqueue found
\* room for its values, then whenever no call is in progress the buffer holds
\* exactly the values enqueued and not yet received, in order.
C18_ConsumerSeesSubsequence ==
    /\ (Returned(Consumer, "dequeue") /\ frame[Consumer].res = "value")
          => frame[Consumer].out[1] \in (frame[Consumer].client.got + 1)..Handed
    /\ (lock = 0 /\ pc[Producer] \in {"idle", "ret"} /\ AlwaysFitted)
          => Fifo(Fields) = [k \in 1..(Enqueued - Received) |-> Received + k]

(***************************************************************************)
(* What the Graph claims speak about                                       *)
(***************************************************************************)
\* A shortestPath call with source # target has returned.
Searched == gpc = "ret" /\ call.op = "shortestPath" /\ call.source # call.target

\* Every inserted weight is a whole number (an even number of halves).
IntegerWeights ==
    \A u \in Nodes(num_nodes) : \A i \in 1..Len(nbr[u]) : nbr[u][i].weight % 2 = 0

\* The weights of the inserted edges between u and v, as seen from u.
Between(u, v) == {nbr[u][i].weight : i \in {j \in 1..Len(nbr[u]) : nbr[u][j].to = v}}

Least(S) == CHOOSE x \in S : \A y \in S : x <= y

\* The paths from s to t that visit no node twice, as node sequences.
Paths(s, t) ==
    {p \in UNION {SeqsOfLen(Nodes(num_nodes), k) : k \in 2..num_nodes} :
        /\ p[1] = s /\ p[Len(p)] = t
        /\ \A i, j \in 1..Len(p) : i # j => p[i] # p[j]
        /\ \A i \in 1..(Len(p) - 1) : Between(p[i], p[i + 1]) # {}}

\* The weight of path p, taking the lightest edge of each hop (in halves).
RECURSIVE PathWeight(_)
PathWeight(p) ==
    IF Len(p) < 2 THEN 0
    ELSE Least(Between(p[1], p[2])) + PathWeight(Tail(p))

Reachable(s, t) == s = t \/ Paths(s, t) # {}

\* The weight of a lightest path from s to a reachable t (in halves).
Shortest(s, t) == IF s = t THEN 0 ELSE Least({PathWeight(p) : p \in Paths(s, t)})

\* A node id in decimal, and a path as its ids with '-' between them.
RECURSIVE Decimal(_)
Decimal(n) ==
    IF n < 10 THEN <<Digits[n + 1]>>
    ELSE Decimal(n \div 10) \o Decimal(n % 10)

RECURSIVE Dashed(_)
Dashed(p) ==
    IF Len(p) = 1 THEN Decimal(p[1])
    ELSE Decimal(p[1]) \o <<"-">> \o Dashed(Tail(p))

\* C13: with whole-number weights, source # target and target reachable, the
\* message is the '-'-joined ids of a path from source to target over
\* inserted edges whose weight is the least of all such paths.
C13_ShortestPathIsLightest ==
    (Searched /\ IntegerWeights /\ Reachable(call.source, call.target))
       => \E p \in Paths(call.source, call.target) :
             /\ message = Dashed(p)
             /\ PathWeight(p) = Shortest(call.source, call.target)

\* The edges (0,1,1.0), (1,2,1.0), (0,2,5.0) and the answer "0-1-2" to
\* shortestPath(0, 2).
C13_Witness ==
    /\ Searched /\ call.source = 0 /\ call.target = 2
    /\ num_nodes = 3
    /\ nbr = [i \in Nodes(3) |->
                CASE i = 0 -> <<Edge(1, 2), Edge(2, 10)>>
                  [] i = 1 -> <<Edge(0, 2), Edge(2, 2)>>
                  [] i = 2 -> <<Edge(1, 2), Edge(0, 10)>>]
    /\ message = <<"0", "-", "1", "-", "2">>

\* C14: for source # target the call returns normally, and the message is
\* empty exactly when target is not reachable from source.
C14_EmptyIffUnreachable ==
    Searched =>
       /\ call.res = "void"
       /\ (message = <<>>) <=> ~Reachable(call.source, call.target)

\* A search has returned for a target that is not reachable although another
\* node is.
C14_Witness ==
    /\ Searched /\ num_edges > 0
    /\ ~Reachable(call.source, call.target)
    /\ \E v \in Nodes(num_nodes) : v # call.source /\ Reachable(call.source, v)

\* C15: shortestPath(s, s) leaves the message "s-s", whatever the edges and
\* whatever ran before.
C15_SelfPath ==
    (gpc = "ret" /\ call.op = "shortestPath" /\ call.source = call.target)
       => message = Decimal(call.source) \o <<"-">> \o Decimal(call.source)

\* shortestPath(s, s) has returned on a graph with edges on which a search
\* from another node ran before.
C15_Witness ==
    /\ gpc = "ret" /\ call.op = "shortestPath" /\ call.source = call.target
    /\ num_edges > 0
    /\ DOMAIN dist = Nodes(num_nodes) /\ dist[call.source] > 0

\* How often e occurs in the list.
Count(list, e) == Cardinality({i \in 1..Len(list) : list[i] = e})

\* C16: num_edges, which getNumEdges() returns, is the number of addEdge
\* calls that returned normally, in every state: no shortestPath call and no
\* failed addEdge changes it.
C16_NumEdgesCountsSuccesses ==
    /\ num_edges = succeeded
    /\ (gpc = "ret" /\ call.op = "getNumEdges") => call.res = succeeded

\* getNumEdges() has returned 2 on a graph a search ran on.
C16_Witness ==
    /\ gpc = "ret" /\ call.op = "getNumEdges" /\ call.res = 2
    /\ DOMAIN dist = Nodes(num_nodes)

\* A call addEdge(u, v, _), however it ends.
AddEdgeCalled(u, v) == AddEdgeThrows(u, v) \/ \E weight \in Weights : AddEdgeInserts(u, v, weight)

\* C17: addEdge with u or v outside [0, num_nodes) ends in out_of_range and
\* leaves num_edges and every adjacency list as they were; and no list ever
\* holds an edge without its twin: every entry names a node, an edge between
\* two nodes is in both lists equally often, a loop is in its list twice.
\* (The lists are empty at first and only addEdge writes them, so it is
\* enough to look at the lists every addEdge call leaves.)
C17_AddEdgeOutOfRange ==
    [][(gpc = "idle" /\ call'.op = "addEdge") =>
          /\ \A u, v \in -1..MaxNodes :
                (AddEdgeCalled(u, v) /\ (u \notin Nodes(num_nodes) \/ v \notin Nodes(num_nodes)))
                   => /\ call'.res = "out_of_range"
                      /\ nbr' = nbr
                      /\ num_edges' = num_edges
          /\ \A u \in Nodes(num_nodes) :
                /\ \A i \in 1..Len(nbr'[u]) : nbr'[u][i].to \in Nodes(num_nodes)
                /\ \A v \in Nodes(num_nodes), weight \in Weights :
                      /\ Count(nbr'[u], Edge(v, weight)) = Count(nbr'[v], Edge(u, weight))
                      /\ Count(nbr'[u], Edge(u, weight)) % 2 = 0]_vars

\* An addEdge has failed on a graph that holds edges.
C17_Witness ==
    gpc = "ret" /\ call.op = "addEdge" /\ call.res = "out_of_range" /\ num_edges > 0

\* A measure of the work dijkstra has left: the queue and, for every node not
\* yet finalized, its edges and the node itself.
RECURSIVE Sum(_, _)
Sum(f, S) == IF S = {} THEN 0 ELSE LET x == CHOOSE y \in S : TRUE IN f[x] + Sum(f, S \ {x})

Rank ==
    IF gpc # "loop" THEN 0
    ELSE 1 + Len(fringe)
           + Sum([v \in Nodes(num_nodes) |-> IF used[v] THEN 0 ELSE Len(nbr[v]) + 1],
                 Nodes(num_nodes))

\* C19: the loop of dijkstra ends (every iteration, and leaving the loop,
\* lowers Rank, which is never negative, and in the loop a step is always
\* possible); no node is finalized twice; and when a search over whole-number
\* weights has returned, dist[v] is set exactly for the nodes reachable from
\* source and is their least path weight, and prev is -1 for the source and
\* for every unreachable node.
C19_DijkstraTerminates ==
    [][/\ gpc = "loop" =>
             /\ Rank' < Rank /\ Rank' >= 0
             /\ ENABLED (DijkstraSkip \/ DijkstraVisit \/ ShortestPathFinish)
       /\ \A i, j \in 1..Len(finalized) : i # j => finalized[i] # finalized[j]
       /\ (Searched /\ IntegerWeights) =>
             /\ prev[call.source] = -1
             /\ \A v \in Nodes(num_nodes) :
                   /\ dist[v] # -1 <=> Reachable(call.source, v)
                   /\ Reachable(call.source, v) => 2 * dist[v] = Shortest(call.source, v)
                   /\ ~Reachable(call.source, v) => prev[v] = -1]_vars

\* A search has returned that finalized three nodes, the last of them by way
\* of a second node.
C19_Witness ==
    /\ Searched /\ IntegerWeights /\ Len(finalized) = 3
    /\ \E v \in Nodes(num_nodes) : prev[v] \notin {-1, call.source}

\* C20: the message of shortestPath(s, t), s # t, is the one a search gives
\* that starts on a Graph with the same adjacency lists and empty dist and
\* prev, and for s = t it is "s-s": nothing of earlier calls shows; and no
\* step of a shortestPath call changes num_edges or an adjacency list.
C20_NoStateBetweenQueries ==
    [][/\ Searched =>
             message = Recovered(Run(Started(<<>>, <<>>, num_nodes, call.source), nbr).prev,
                                 call.target)
       /\ (gpc = "ret" /\ call.op = "shortestPath" /\ call.source = call.target)
             => message = Decimal(call.source) \o <<"-">> \o Decimal(call.target)
       /\ (call.op = "shortestPath" \/ call'.op = "shortestPath")
             => (nbr' = nbr /\ num_edges' = num_edges)]_vars

\* A search has returned that began with dist and prev filled by an earlier
\* search; its answer is a path of three nodes.
C20_Witness ==
    /\ Searched /\ call.again
    /\ Len(message) = 5

====
